---------------------------- MODULE Spec2Model ----------------------------
(***************************************************************************)
(* A model of src/ai_insight.py: the site catalog (SitesInformation), its  *)
(* loader (__init__), the construction of the records (_initialize_sites), *)
(* the NSFW filter, the name list, the description clusterer and the       *)
(* anomaly detector.                                                       *)
(*                                                                         *)
(* The string operations (lower, casefold, startswith, endswith, the       *)
(* ordering of strings, the two regular expressions, the tokens of a       *)
(* description) are computed on the characters of a string, Chars(s), a    *)
(* sequence of one-character strings.  The alphabet is ASCII, on which     *)
(* str.casefold and str.lower agree.                                       *)
(***************************************************************************)
EXTENDS Integers, Sequences, FiniteSets, TLC

(***************************************************************************)
(* Characters.                                                             *)
(***************************************************************************)
UpperLetters == <<"A","B","C","D","E","F","G","H","I","J","K","L","M",
                  "N","O","P","Q","R","S","T","U","V","W","X","Y","Z">>
LowerLetters == <<"a","b","c","d","e","f","g","h","i","j","k","l","m",
                  "n","o","p","q","r","s","t","u","v","w","x","y","z">>
Digits == <<"0","1","2","3","4","5","6","7","8","9">>

IndexIn(c, s) == CHOOSE i \in 1..Len(s) : s[i] = c
UpperSet == {UpperLetters[i] : i \in 1..Len(UpperLetters)}
LowerSet == {LowerLetters[i] : i \in 1..Len(LowerLetters)}
DigitSet == {Digits[i] : i \in 1..Len(Digits)}
Punctuation == {"\t", "\n", " ", "$", "-", ".", "/", ":", "_", "{", "}"}

\* ord(c) for the characters of the alphabet.
OrdTable ==
    [c \in UpperSet \cup LowerSet \cup DigitSet \cup Punctuation |->
        IF c \in UpperSet THEN 64 + IndexIn(c, UpperLetters)
        ELSE IF c \in LowerSet THEN 96 + IndexIn(c, LowerLetters)
        ELSE IF c \in DigitSet THEN 47 + IndexIn(c, Digits)
        ELSE CASE c = "\t" -> 9
               [] c = "\n" -> 10
               [] c = " "  -> 32
               [] c = "$"  -> 36
               [] c = "-"  -> 45
               [] c = "."  -> 46
               [] c = "/"  -> 47
               [] c = ":"  -> 58
               [] c = "_"  -> 95
               [] c = "{"  -> 123
               [] c = "}"  -> 125]
Ord(c) == OrdTable[c]

\* str.lower() of one character.
LowerTable == [c \in UpperSet |-> LowerLetters[IndexIn(c, UpperLetters)]]
LowerChar(c) == IF c \in UpperSet THEN LowerTable[c] ELSE c

\* str.lower() and str.casefold() of a string.
Lower(s) == [i \in 1..Len(s) |-> LowerChar(s[i])]
CaseFold(s) == [i \in 1..Len(s) |-> LowerChar(s[i])]

\* str.startswith and str.endswith.
StartsWith(s, p) == Len(s) >= Len(p) /\ SubSeq(s, 1, Len(p)) = p
EndsWith(s, p) == Len(s) >= Len(p) /\ SubSeq(s, Len(s) - Len(p) + 1, Len(s)) = p

\* s < t in Python's ordering of strings (by code point, a prefix first).
RECURSIVE StrLess(_, _)
StrLess(s, t) ==
    IF t = <<>> THEN FALSE
    ELSE IF s = <<>> THEN TRUE
    ELSE IF s[1] = t[1] THEN StrLess(Tail(s), Tail(t))
    ELSE Ord(s[1]) < Ord(t[1])

(***************************************************************************)
(* The two patterns of detect_anomalies, as re.match applies them.         *)
(***************************************************************************)
Whitespace == {" ", "\t", "\n"}
WordChars == UpperSet \cup LowerSet \cup DigitSet \cup {"_"}
IsWordChar(c) == c \in WordChars

\* "$" matches at the end of the string and before one trailing newline.
BeforeDollar(s) == IF Len(s) > 0 /\ s[Len(s)] = "\n"
                   THEN SubSeq(s, 1, Len(s) - 1)
                   ELSE s

\* \S+\.\S+ over the whole of r.
DottedNonSpace(r) == /\ \A i \in 1..Len(r) : r[i] \notin Whitespace
                     /\ \E i \in 2..(Len(r) - 1) : r[i] = "."

\* re.match(r'^https?://\S+\.\S+$', s)
MatchUrl(s) ==
    LET t == BeforeDollar(s)
        http  == <<"h","t","t","p",":","/","/">>
        https == <<"h","t","t","p","s",":","/","/">>
    IN \/ StartsWith(t, https) /\ DottedNonSpace(SubSeq(t, Len(https) + 1, Len(t)))
       \/ StartsWith(t, http)  /\ DottedNonSpace(SubSeq(t, Len(http) + 1, Len(t)))

\* re.match(r'^\w+$', s)
MatchWord(s) ==
    LET t == BeforeDollar(s)
    IN Len(t) > 0 /\ \A i \in 1..Len(t) : IsWordChar(t[i])

(***************************************************************************)
(* JSON values.  A value is [t, v]: its Python type and the string itself  *)
(* (for a number or a boolean, its literal).  Absent is the marker of a    *)
(* key that a dict does not hold.                                          *)
(***************************************************************************)
Str(s) == [t |-> "str", v |-> s]
Num(s) == [t |-> "num", v |-> s]
Null == [t |-> "null", v |-> ""]
JTrue == [t |-> "bool", v |-> "True"]
JFalse == [t |-> "bool", v |-> "False"]
EmptyList == [t |-> "list", v |-> "[]"]
Absent == [t |-> "absent", v |-> ""]

\* bool(x) of a value.
Truthy(j) == CASE j.t = "str"  -> j.v # ""
               [] j.t = "num"  -> j.v # "0"
               [] j.t = "bool" -> j = JTrue
               [] OTHER        -> FALSE

\* The keys a site's dict can hold in the model.
NoFields == [urlMain |-> Absent, url |-> Absent, username_claimed |-> Absent,
             isNSFW |-> Absent, description |-> Absent, cluster |-> Absent]

\* A raw entry of the data file: a dict with its keys, or a value of another type.
Dict(f) == [t |-> "dict", f |-> f]
NotDict(j) == [t |-> j.t, f |-> NoFields]
IsDict(e) == e.t = "dict"

\* key in d, d[key] and d.get(key, default) of a dict's fields.
HasKey(f, key) == f[key] # Absent
Get(f, key, default) == IF HasKey(f, key) THEN f[key] ELSE default

(***************************************************************************)
(* The strings of the model and their characters.                          *)
(***************************************************************************)
\* The default data file of line 107.
DefaultUrl == "https://raw.githubusercontent.com/sherlock-project/sherlock/master/sherlock_project/resources/data.json"

\* data_file_path=None: a marker, which is no path.
NonePath == "<None>"

\* The characters of each string that the model's data holds.
Chars(s) ==
    CASE s = DefaultUrl ->
            <<"h","t","t","p","s",":","/","/","r","a","w",".","g","i",
              "t","h","u","b","u","s","e","r","c","o","n","t","e","n",
              "t",".","c","o","m","/","s","h","e","r","l","o","c","k",
              "-","p","r","o","j","e","c","t","/","s","h","e","r","l",
              "o","c","k","/","m","a","s","t","e","r","/","s","h","e",
              "r","l","o","c","k","_","p","r","o","j","e","c","t","/",
              "r","e","s","o","u","r","c","e","s","/","d","a","t","a",
              ".","j","s","o","n">>
       [] s = "" -> <<>>
       [] s = "https://a.com" -> <<"h","t","t","p","s",":","/","/","a",".","c","o","m">>
       [] s = "https://a.com/{}" -> <<"h","t","t","p","s",":","/","/","a",".","c","o","m","/","{","}">>
       [] s = "not a url" -> <<"n","o","t"," ","a"," ","u","r","l">>
       [] s = "admin" -> <<"a","d","m","i","n">>
       [] s = "j d" -> <<"j"," ","d">>
       [] s = "Art blog" -> <<"A","r","t"," ","b","l","o","g">>
       [] s = "The" -> <<"T","h","e">>
       [] s = "a" -> <<"a">>
       [] s = "A" -> <<"A">>
       [] s = "B" -> <<"B">>
       [] s = "ab" -> <<"a","b">>
       [] s = "c" -> <<"c">>
       [] s = "D" -> <<"D">>
       [] s = "e" -> <<"e">>
       [] s = "F" -> <<"F">>
       [] s = "X" -> <<"X">>
       [] s = "$schema" -> <<"$","s","c","h","e","m","a">>
       [] s = "d.json" -> <<"d",".","j","s","o","n">>
       [] s = "D.JSON" -> <<"D",".","J","S","O","N">>
       [] s = "d.csv" -> <<"d",".","c","s","v">>
       [] s = "http://h/d.json" -> <<"h","t","t","p",":","/","/","h","/","d",".","j","s","o","n">>
       [] s = "Https://h/d.csv" -> <<"H","t","t","p","s",":","/","/","h","/","d",".","c","s","v">>

\* The literals of lines 109, 112 and 136.
S_json == <<".","j","s","o","n">>
S_http == <<"h","t","t","p">>
S_schema == "$schema"

(***************************************************************************)
(* Exceptions and printed lines.                                           *)
(***************************************************************************)
Exc(type, line, key) == [type |-> type, line |-> line, key |-> key]
NoError == Exc("", 0, "")
Printed(msg, site, key) == [msg |-> msg, site |-> site, key |-> key]

(***************************************************************************)
(* SiteInformation.                                                        *)
(***************************************************************************)
\* SiteInformation.__init__: the record of one site.
SiteInformation(name, url_home, url_username_format, username_claimed, information, is_nsfw, username_unclaimed) ==
    [name |-> name,
     url_home |-> url_home,
     url_username_format |-> url_username_format,
     username_claimed |-> username_claimed,
     username_unclaimed |-> username_unclaimed,
     information |-> information,
     is_nsfw |-> is_nsfw]

\* SiteInformation.__str__: the characters of "<name> (<url_home>)", for a
\* string url_home.
SiteStr(site) ==
    Chars(site.name) \o <<" ", "(">> \o Chars(site.url_home.v) \o <<")">>

(***************************************************************************)
(* A dict that keeps insertion order is a sequence of items with distinct  *)
(* keys: the data file is a sequence of [name, value], self.sites is a     *)
(* sequence of SiteInformation records, keyed by their name.               *)
(***************************************************************************)
Item(name, value) == [name |-> name, value |-> value]

\* site_data.pop(key, None)
Pop(data, key) == SelectSeq(data, LAMBDA it : it.name # key)

\* sites[site.name] = site
DictSet(sites, site) ==
    IF \E i \in 1..Len(sites) : sites[i].name = site.name
    THEN [i \in 1..Len(sites) |->
             IF sites[i].name = site.name THEN site ELSE sites[i]]
    ELSE Append(sites, site)

(***************************************************************************)
(* SitesInformation._initialize_sites.                                     *)
(***************************************************************************)
RequiredKeys == <<"urlMain", "url", "username_claimed">>

\* The first required key that the dict lacks, in the order the arguments
\* of line 155-157 are evaluated; "" when it has them all.
FirstMissing(f) ==
    IF \E i \in 1..Len(RequiredKeys) : ~HasKey(f, RequiredKeys[i])
    THEN RequiredKeys[CHOOSE i \in 1..Len(RequiredKeys) :
            /\ ~HasKey(f, RequiredKeys[i])
            /\ \A j \in 1..(i - 1) : HasKey(f, RequiredKeys[j])]
    ELSE ""

\* A mutant of EntryOutcome: a dict that lacks a required key is skipped
\* as an entry of the wrong type is.
EntryOutcomeSkipsMissing(entry) ==
    IF ~IsDict(entry) THEN "TypeError"
    ELSE IF FirstMissing(entry.f) # "" THEN "TypeError"
    ELSE "ok"

\* What the try block of lines 152-160 does with one entry: subscripting a
\* value that is no dict raises TypeError, a missing key raises KeyError.
EntryOutcome(entry) ==
    IF ~IsDict(entry) THEN "TypeError"
    ELSE IF FirstMissing(entry.f) # "" THEN "KeyError"
    ELSE "ok"

\* The loop of lines 151-166 from entry i on: the sites built, the
\* exception raised and the lines printed.
RECURSIVE InitializeLoop(_, _, _, _, _)
InitializeLoop(site_data, i, sites, printed, username_unclaimed) ==
    IF i > Len(site_data)
    THEN [sites |-> sites, raised |-> NoError, printed |-> printed]
    ELSE LET site_name == site_data[i].name
             entry == site_data[i].value
             outcome == EntryOutcome(entry)
         IN IF outcome = "KeyError"
            THEN [sites |-> sites,
                  raised |-> Exc("ValueError", 162, FirstMissing(entry.f)),
                  printed |-> printed]
            ELSE IF outcome = "TypeError"
            THEN InitializeLoop(site_data, i + 1, sites,
                     Append(printed, Printed("skipping", site_name, "")),
                     username_unclaimed)
            ELSE InitializeLoop(site_data, i + 1,
                     DictSet(sites,
                         SiteInformation(site_name,
                                         entry.f.urlMain,
                                         entry.f.url,
                                         entry.f.username_claimed,
                                         entry.f,
                                         Get(entry.f, "isNSFW", JFalse),
                                         username_unclaimed)),
                     printed, username_unclaimed)

InitializeSites(site_data, username_unclaimed) ==
    InitializeLoop(site_data, 1, <<>>, <<>>, username_unclaimed)

(***************************************************************************)
(* SitesInformation.__init__: the loader.  The world is what the network   *)
(* and the file system answer: [net, file, top, content].                  *)
(***************************************************************************)
Outcome(io, raised, top, data) ==
    [io |-> io, raised |-> raised, top |-> top, data |-> data]
IoEvent(op, target) == [op |-> op, target |-> target]

\* Lines 106-107: no path given (None or the empty string) is the default.
ResolvePath(data_file_path) ==
    IF data_file_path = NonePath \/ data_file_path = ""
    THEN DefaultUrl
    ELSE data_file_path

\* Lines 113-124.  A body that does not parse raises ValueError from
\* response.json(); the requests library's JSONDecodeError is, from 2.27
\* on, a RequestException as well, and is then caught by the first clause.
FetchUrl(path, world) ==
    LET io == <<IoEvent("requests.get", path)>>
    IN CASE world.net = "unreachable" ->
              {Outcome(io, Exc("FileNotFoundError", 118, ""), "", <<>>)}
         [] world.net = "status" ->
              {Outcome(io, Exc("FileNotFoundError", 118, ""), "", <<>>)}
         [] world.net = "garbage" ->
              {Outcome(io, Exc("FileNotFoundError", 118, ""), "", <<>>),
               Outcome(io, Exc("ValueError", 122, ""), "", <<>>)}
         [] world.net = "ok" ->
              {Outcome(io, NoError, world.top, world.content)}

\* Lines 126-134: only FileNotFoundError and ValueError are caught.
ReadFile(path, world) ==
    LET io == <<IoEvent("open", path)>>
    IN CASE world.file = "missing" ->
              {Outcome(io, Exc("FileNotFoundError", 130, ""), "", <<>>)}
         [] world.file = "denied" ->
              {Outcome(io, Exc("PermissionError", 127, ""), "", <<>>)}
         [] world.file = "directory" ->
              {Outcome(io, Exc("IsADirectoryError", 127, ""), "", <<>>)}
         [] world.file = "garbage" ->
              {Outcome(io, Exc("ValueError", 132, ""), "", <<>>)}
         [] world.file = "ok" ->
              {Outcome(io, NoError, world.top, world.content)}

\* A mutant of LoadSource: the extension is checked for local paths only.
LoadSourceUrlUnchecked(data_file_path, world) ==
    LET path == ResolvePath(data_file_path)
    IN IF StartsWith(Lower(Chars(path)), S_http)
       THEN FetchUrl(path, world)
       ELSE IF ~EndsWith(Lower(Chars(path)), S_json)
       THEN {Outcome(<<>>, Exc("FileNotFoundError", 110, ""), "", <<>>)}
       ELSE ReadFile(path, world)

\* Lines 106-134: the outcomes of loading the data file.
LoadSource(data_file_path, world) ==
    LET path == ResolvePath(data_file_path)
    IN IF ~EndsWith(Lower(Chars(path)), S_json)
       THEN {Outcome(<<>>, Exc("FileNotFoundError", 110, ""), "", <<>>)}
       ELSE IF StartsWith(Lower(Chars(path)), S_http)
       THEN FetchUrl(path, world)
       ELSE ReadFile(path, world)

(***************************************************************************)
(* SitesInformation.remove_nsfw_sites.                                     *)
(***************************************************************************)
\* [site.casefold() for site in do_not_remove]
CaseFoldAll(names) == [i \in 1..Len(names) |-> CaseFold(Chars(names[i]))]
InList(x, list) == \E i \in 1..Len(list) : list[i] = x

\* A mutant of IsRemoved: the site's name is compared as it is written.
IsRemovedExactCase(site, do_not_remove) ==
    Truthy(site.is_nsfw) /\ ~InList(Chars(site.name), do_not_remove)

\* The condition of line 182, do_not_remove being the case-folded list.
IsRemoved(site, do_not_remove) ==
    Truthy(site.is_nsfw) /\ ~InList(CaseFold(Chars(site.name)), do_not_remove)

RECURSIVE RemoveLoop(_, _, _, _)
RemoveLoop(old, i, sites, do_not_remove) ==
    IF i > Len(old) THEN sites
    ELSE IF IsRemoved(old[i], do_not_remove)
    THEN RemoveLoop(old, i + 1, sites, do_not_remove)
    ELSE RemoveLoop(old, i + 1, DictSet(sites, old[i]), do_not_remove)

\* A mutant of RemoveNsfwSites: the sites are deleted from the dict while
\* it is walked by index, so the site after a deleted one is not looked at.
RECURSIVE RemoveInPlaceLoop(_, _, _)
RemoveInPlaceLoop(sites, i, do_not_remove) ==
    IF i > Len(sites) THEN sites
    ELSE IF IsRemoved(sites[i], do_not_remove)
    THEN RemoveInPlaceLoop(
             SubSeq(sites, 1, i - 1) \o SubSeq(sites, i + 1, Len(sites)),
             i + 1, do_not_remove)
    ELSE RemoveInPlaceLoop(sites, i + 1, do_not_remove)
RemoveNsfwSitesInPlace(sites, do_not_remove) ==
    RemoveInPlaceLoop(sites, 1, CaseFoldAll(do_not_remove))

\* Lines 179-185: the new value of self.sites.
RemoveNsfwSites(sites, do_not_remove) ==
    RemoveLoop(sites, 1, <<>>, CaseFoldAll(do_not_remove))

(***************************************************************************)
(* SitesInformation.__iter__, __len__ and site_name_list.                  *)
(***************************************************************************)
\* __iter__: the records, in the order of the dict.
Iter(sites) == [i \in 1..Len(sites) |-> sites[i]]
\* __len__
SitesLen(sites) == Len(sites)

\* A mutant of SortKey: no key, the names are compared as written.
SortKeyIdentity(name) == Chars(name)

\* key=str.lower
SortKey(name) == Lower(Chars(name))

\* sorted() is stable: x goes after every element whose key is not greater.
RECURSIVE InsertSorted(_, _)
InsertSorted(sorted, x) ==
    IF sorted = <<>> THEN <<x>>
    ELSE IF StrLess(SortKey(x), SortKey(sorted[1]))
    THEN <<x>> \o sorted
    ELSE <<sorted[1]>> \o InsertSorted(Tail(sorted), x)

RECURSIVE Sorted(_)
Sorted(list) ==
    IF list = <<>> THEN <<>>
    ELSE InsertSorted(Sorted(SubSeq(list, 1, Len(list) - 1)), list[Len(list)])

\* Line 197.
SiteNameList(sites) ==
    Sorted([i \in 1..Len(Iter(sites)) |-> Iter(sites)[i].name])

(***************************************************************************)
(* SitesInformation.analyze_site_descriptions.                             *)
(***************************************************************************)
NClusters == 5

\* TfidfVectorizer's tokens of a document: the runs of two or more word
\* characters of the lower-cased text (token_pattern (?u)\b\w\w+\b).
RECURSIVE TokensFrom(_, _)
TokensFrom(s, cur) ==
    LET done == IF Len(cur) >= 2 THEN {cur} ELSE {}
    IN IF s = <<>> THEN done
       ELSE IF IsWordChar(s[1]) THEN TokensFrom(Tail(s), Append(cur, s[1]))
       ELSE done \cup TokensFrom(Tail(s), <<>>)
Tokens(s) == TokensFrom(Lower(s), <<>>)

\* The words of stop_words='english' that the descriptions of the model hold.
StopWords == {<<"t","h","e">>, <<"a","n","d">>, <<"o","f">>}

\* Line 208.
Descriptions(sites) ==
    [i \in 1..Len(sites) |-> Get(sites[i].information, "description", Str(""))]

Vocabulary(descriptions) ==
    UNION {Tokens(Chars(descriptions[i].v)) : i \in 1..Len(descriptions)}
        \ StopWords

\* Lines 209-212: what fit_transform and KMeans.fit raise.  A document that
\* is no string has no lower(); a corpus with no term left is refused; so
\* are fewer samples than clusters.
ClusteringError(descriptions) ==
    IF \E i \in 1..Len(descriptions) : descriptions[i].t # "str"
    THEN Exc("AttributeError", 210, "")
    ELSE IF Vocabulary(descriptions) = {}
    THEN Exc("ValueError", 210, "")
    ELSE IF Len(descriptions) < NClusters
    THEN Exc("ValueError", 211, "")
    ELSE NoError

\* The label maps KMeans(n_clusters=5, random_state=0).fit(X).predict(X) can
\* give: predict is a function of the document's vector, hence of the
\* document, and the model does not compute which.  When the fit raises
\* there are no labels, and the one map given is never read.
FitPredict(descriptions) ==
    LET documents == {descriptions[i] : i \in 1..Len(descriptions)}
    IN IF ClusteringError(descriptions) = NoError
       THEN [documents -> 0..(NClusters - 1)]
       ELSE {[d \in documents |-> 0]}

\* int(clusters[i]) as a value.
IntValue(k) == Num(Digits[k + 1])

\* Lines 214-215: every site is annotated with the label of its document.
Annotate(sites, label) ==
    [i \in 1..Len(sites) |->
        [sites[i] EXCEPT !.information.cluster =
            IntValue(label[Descriptions(sites)[i]])]]

\* A mutant of AnalyzeSiteDescriptions: the sites are annotated one by one
\* as their documents are read, up to the first error.
RECURSIVE AnalyzeOneByOne(_, _, _)
AnalyzeOneByOne(sites, i, label) ==
    IF i > Len(sites)
    THEN [sites |-> sites, raised |-> ClusteringError(Descriptions(sites))]
    ELSE IF Descriptions(sites)[i].t # "str"
    THEN [sites |-> sites, raised |-> Exc("AttributeError", 210, "")]
    ELSE AnalyzeOneByOne(
             [sites EXCEPT ![i].information.cluster =
                 IntValue(label[Descriptions(sites)[i]])],
             i + 1, label)
AnalyzeSiteDescriptionsStreaming(sites, label) ==
    AnalyzeOneByOne(sites, 1, label)

\* Lines 208-216: the sites after the call and the exception it raised.
AnalyzeSiteDescriptions(sites, label) ==
    LET error == ClusteringError(Descriptions(sites))
    IN IF error # NoError
       THEN [sites |-> sites, raised |-> error]
       ELSE [sites |-> Annotate(sites, label), raised |-> NoError]

(***************************************************************************)
(* SitesInformation.detect_anomalies.                                      *)
(***************************************************************************)
\* The patterns of lines 227-230, in the order of the dict.
PatternKeys == <<"url", "username_claimed">>
Matches(key, s) == IF key = "url" THEN MatchUrl(s) ELSE MatchWord(s)

\* Lines 232-235 from site i, pattern k on: re.match of a value that is no
\* string raises TypeError.
RECURSIVE DetectLoop(_, _, _, _)
DetectLoop(sites, i, k, printed) ==
    IF i > Len(sites) THEN [printed |-> printed, raised |-> NoError]
    ELSE IF k > Len(PatternKeys) THEN DetectLoop(sites, i + 1, 1, printed)
    ELSE LET key == PatternKeys[k]
             info == sites[i].information
         IN IF ~HasKey(info, key)
            THEN DetectLoop(sites, i, k + 1, printed)
            ELSE IF info[key].t # "str"
            THEN [printed |-> printed, raised |-> Exc("TypeError", 234, key)]
            ELSE IF ~Matches(key, Chars(info[key].v))
            THEN DetectLoop(sites, i, k + 1,
                     Append(printed, Printed("anomaly", sites[i].name, key)))
            ELSE DetectLoop(sites, i, k + 1, printed)

DetectAnomalies(sites) == DetectLoop(sites, 1, 1, <<>>)

(***************************************************************************)
(* The inputs: data files, paths, worlds and lists of names to keep.       *)
(***************************************************************************)
MaxSmall == 2
MaxExtra == 0

Fields(urlMain, url, username_claimed, isNSFW, description) ==
    [urlMain |-> urlMain, url |-> url, username_claimed |-> username_claimed,
     isNSFW |-> isNSFW, description |-> description, cluster |-> Absent]

E_plain == Dict(Fields(Str("https://a.com"), Str("https://a.com/{}"), Str("admin"), Absent, Str("Art blog")))
E_nsfw == Dict(Fields(Str("https://a.com"), Str("https://a.com/{}"), Str("admin"), JTrue, Str("The")))
E_bad_home == Dict(Fields(Str("not a url"), Str("https://a.com/{}"), Str("admin"), JFalse, Absent))
E_bad_url == Dict(Fields(Str("https://a.com"), Str("not a url"), Str("j d"), Absent, Absent))
E_num_url == Dict(Fields(Str("https://a.com"), Num("5"), Str("admin"), Absent, Absent))
E_no_url == Dict(Fields(Str("https://a.com"), Absent, Str("admin"), JTrue, Absent))
E_list == NotDict(EmptyList)
E_num_description == Dict(Fields(Str("https://a.com"), Str("https://a.com/{}"), Str("admin"), Absent, Num("5")))

SmallEntries == {E_plain, E_nsfw, E_bad_home, E_bad_url, E_num_url, E_no_url, E_list}
LargeEntries == {E_plain, E_nsfw, E_num_description}

SmallNames == {"B", "a", "A"}
LargeNames == <<"B", "a", "A", "ab", "c", "D", "e", "F">>

\* Every data file of at most MaxSmall sites, in every order of the names.
SmallDatasets ==
    UNION {{[i \in 1..n |-> Item(names[i], entries[i])] :
               names \in {ns \in [1..n -> SmallNames] :
                             \A i, j \in 1..n : i # j => ns[i] # ns[j]},
               entries \in [1..n -> SmallEntries]} :
           n \in 0..MaxSmall}

\* Data files of NClusters sites and more: all sites alike but at most one.
LargeDatasets ==
    UNION {{[i \in 1..n |-> Item(LargeNames[i], IF i = odd THEN y ELSE x)] :
               x \in LargeEntries, y \in LargeEntries, odd \in 1..n} :
           n \in NClusters..(NClusters + MaxExtra)}

Datasets == SmallDatasets \cup LargeDatasets

\* The data file that the remote sources serve: it names its schema.
SampleDataset == <<Item(S_schema, NotDict(Str("https://a.com"))),
                   Item("a", E_plain), Item("B", E_nsfw)>>

P_local == "d.json"
P_upper == "D.JSON"
P_csv == "d.csv"
P_url == "http://h/d.json"
P_url_csv == "Https://h/d.csv"
Paths == {NonePath, "", P_local, P_upper, P_csv, P_url, P_url_csv}

World(net, file, top, content) ==
    [net |-> net, file |-> file, top |-> top, content |-> content]

\* The worlds a path is loaded in.  Every data file is tried at P_local;
\* the other paths that load serve SampleDataset.
Worlds(path) ==
    CASE path \in {P_csv, P_url_csv} ->
           {World("unreachable", "missing", "dict", <<>>),
            World("ok", "ok", "dict", SampleDataset)}
      [] path \in {NonePath, "", P_url} ->
           {World(n, "missing", "dict", <<>>) :
               n \in {"unreachable", "status", "garbage"}}
           \cup {World("ok", "missing", "dict", SampleDataset)}
      [] path = P_upper ->
           {World("unreachable", f, "dict", <<>>) :
               f \in {"missing", "denied", "directory", "garbage"}}
           \cup {World("unreachable", "ok", "dict", SampleDataset)}
      [] path = P_local ->
           {World("unreachable", f, "dict", <<>>) :
               f \in {"missing", "denied", "directory", "garbage"}}
           \cup {World("unreachable", "ok", "list", <<>>)}
           \cup {World("unreachable", "ok", "dict", d) : d \in Datasets}

\* The values secrets.token_urlsafe(10) can return, two of them.
TokenValues == {Str("k7_Qw3e-Zx0AbQ"), Str("Zx-0Lm9_rT2yUa")}

KeepLists == {<<>>, <<"X", "A">>}

(***************************************************************************)
(* The state.                                                              *)
(***************************************************************************)
VARIABLES
    data_file_path,      \* the argument of SitesInformation()
    world,               \* what the network and the file system answer
    username_unclaimed,  \* the default of SiteInformation's last parameter
    token_calls,         \* the calls of secrets.token_urlsafe so far
    pc,                  \* "start", then "ready" (the object exists) or "failed"
    io,                  \* the requests sent and the files opened, in order
    site_data,           \* the data handed to _initialize_sites
    sites,               \* self.sites
    op,                  \* the last call
    do_not_remove,       \* its argument
    returned,            \* what it returned
    raised,              \* the exception it raised, or NoError
    stdout               \* what it printed

vars == <<data_file_path, world, username_unclaimed, token_calls, pc, io,
          site_data, sites, op, do_not_remove, returned, raised, stdout>>

\* The module is imported: the default of line 11 has been evaluated, once.
Init ==
    /\ data_file_path \in Paths
    /\ world \in Worlds(data_file_path)
    /\ username_unclaimed \in TokenValues
    /\ token_calls = 1
    /\ pc = "start"
    /\ io = <<>>
    /\ site_data = <<>>
    /\ sites = <<>>
    /\ op = ""
    /\ do_not_remove = <<>>
    /\ returned = <<>>
    /\ raised = NoError
    /\ stdout = <<>>

\* Lines 136-139, after a load that raised nothing: the object's sites, the
\* exception raised and the lines printed.
BuildSites(loaded, default_unclaimed) ==
    IF loaded.top # "dict"
    THEN [site_data |-> <<>>, sites |-> <<>>,
          raised |-> Exc("TypeError", 136, ""), printed |-> <<>>]
    ELSE LET data == Pop(loaded.data, S_schema)
             built == InitializeSites(data, default_unclaimed)
         IN [site_data |-> data,
             sites |-> IF built.raised = NoError THEN built.sites ELSE <<>>,
             raised |-> built.raised,
             printed |-> built.printed]

\* SitesInformation(data_file_path)
Construct ==
    /\ pc = "start"
    /\ \E loaded \in LoadSource(data_file_path, world) :
          LET built == IF loaded.raised # NoError
                       THEN [site_data |-> <<>>, sites |-> <<>>,
                             raised |-> loaded.raised, printed |-> <<>>]
                       ELSE BuildSites(loaded, username_unclaimed)
          IN /\ io' = loaded.io
             /\ site_data' = built.site_data
             /\ sites' = built.sites
             /\ raised' = built.raised
             /\ stdout' = built.printed
             /\ pc' = IF built.raised = NoError THEN "ready" ELSE "failed"
    /\ op' = "__init__"
    /\ returned' = <<>>
    /\ UNCHANGED <<data_file_path, world, username_unclaimed, token_calls,
                   do_not_remove>>

\* sites.remove_nsfw_sites(keep)
RemoveNsfw ==
    /\ pc = "ready"
    /\ \E keep \in KeepLists :
          /\ sites' = RemoveNsfwSites(sites, keep)
          /\ do_not_remove' = keep
    /\ op' = "remove_nsfw_sites"
    /\ returned' = <<>>
    /\ raised' = NoError
    /\ stdout' = <<>>
    /\ UNCHANGED <<data_file_path, world, username_unclaimed, token_calls,
                   pc, io, site_data>>

\* sites.site_name_list()
NameList ==
    /\ pc = "ready"
    /\ returned' = SiteNameList(sites)
    /\ op' = "site_name_list"
    /\ do_not_remove' = <<>>
    /\ raised' = NoError
    /\ stdout' = <<>>
    /\ UNCHANGED <<data_file_path, world, username_unclaimed, token_calls,
                   pc, io, site_data, sites>>

\* sites.analyze_site_descriptions(): the labels are those of some KMeans fit.
Analyze ==
    /\ pc = "ready"
    /\ \E label \in FitPredict(Descriptions(sites)) :
          LET done == AnalyzeSiteDescriptions(sites, label)
          IN /\ sites' = done.sites
             /\ raised' = done.raised
             /\ stdout' = IF done.raised = NoError
                          THEN <<Printed("clustered", "", "")>>
                          ELSE <<>>
    /\ op' = "analyze_site_descriptions"
    /\ do_not_remove' = <<>>
    /\ returned' = <<>>
    /\ UNCHANGED <<data_file_path, world, username_unclaimed, token_calls,
                   pc, io, site_data>>

\* sites.detect_anomalies()
Detect ==
    /\ pc = "ready"
    /\ LET done == DetectAnomalies(sites)
       IN /\ raised' = done.raised
          /\ stdout' = done.printed
    /\ op' = "detect_anomalies"
    /\ do_not_remove' = <<>>
    /\ returned' = <<>>
    /\ UNCHANGED <<data_file_path, world, username_unclaimed, token_calls,
                   pc, io, site_data, sites>>

Next == Construct \/ RemoveNsfw \/ NameList \/ Analyze \/ Detect

Spec == Init /\ [][Next]_vars

(***************************************************************************)
(* The properties.                                                         *)
(***************************************************************************)
Names(list) == [i \in 1..Len(list) |-> list[i].name]
IsSensitive(site) == Truthy(site.is_nsfw)
KeptBy(site, keep) ==
    \E k \in 1..Len(keep) : CaseFold(Chars(site.name)) = CaseFold(Chars(keep[k]))
Survivors(old, keep) ==
    SelectSeq(old, LAMBDA site : ~IsSensitive(site) \/ KeptBy(site, keep))
DictEntries(data) == {i \in 1..Len(data) : data[i].value.t = "dict"}
LacksRequired(entry) ==
    /\ entry.t = "dict"
    /\ \E key \in {"urlMain", "url", "username_claimed"} : entry.f[key] = Absent

\* C1: remove_nsfw_sites(keep) leaves exactly the sites that are not
\* sensitive or whose case-folded name is the case-folded form of an element
\* of keep, in the order they were in.
C1_RemoveKeepsExactly ==
    [][op' = "remove_nsfw_sites" => sites' = Survivors(sites, do_not_remove')]_vars

\* A sensitive site named "a" was kept by the element "A" of keep, while
\* another site was removed.
C1_Witness ==
    /\ op = "remove_nsfw_sites"
    /\ \E i \in 1..Len(sites) :
          /\ IsSensitive(sites[i]) /\ sites[i].name = "a"
          /\ ~InList(sites[i].name, do_not_remove)
          /\ InList("A", do_not_remove)
    /\ Len(sites) < Cardinality(DictEntries(site_data))

\* C2: remove_nsfw_sites is idempotent: after remove_nsfw_sites(keep), a
\* second remove_nsfw_sites(keep) would leave self.sites as it is.
C2_RemoveIdempotent ==
    op = "remove_nsfw_sites" => RemoveNsfwSites(sites, do_not_remove) = sites

\* The first application removed a site and left one.
C2_Witness ==
    /\ op = "remove_nsfw_sites"
    /\ Len(sites) > 0
    /\ \E i \in DictEntries(site_data) :
          /\ Truthy(Get(site_data[i].value.f, "isNSFW", JFalse))
          /\ ~InList(site_data[i].name, Names(sites))

\* C3: the build aborts with the fatal ValueError, and no object, exactly
\* when some entry is a dict that lacks urlMain, url or username_claimed,
\* wherever it sits; otherwise the object holds one site per dict entry, in
\* order, and none for an entry that is no dict.
C3_BuildAbortsOrCounts ==
    LET bad == \E i \in 1..Len(site_data) : LacksRequired(site_data[i].value)
        dicts == SelectSeq(site_data, LAMBDA it : it.value.t = "dict")
    IN /\ bad => /\ pc = "failed"
                 /\ raised.type = "ValueError" /\ raised.line = 162
                 /\ sites = <<>>
       /\ pc = "failed" /\ raised.line = 162 => bad
       /\ op = "__init__" /\ pc = "ready" =>
             /\ Len(sites) = Len(dicts)
             /\ Names(sites) = Names(dicts)
             /\ \A i \in 1..Len(sites) : sites[i].information = dicts[i].value.f

\* A build that skipped an entry that is no dict and kept a site.
C3_Witness ==
    /\ op = "__init__" /\ pc = "ready"
    /\ Len(sites) >= 1
    /\ \E i \in 1..Len(site_data) : site_data[i].value.t = "list"
    /\ \E i \in 1..Len(stdout) : stdout[i].msg = "skipping"

NotJson(path) == ~EndsWith(Lower(Chars(path)), S_json)
InvalidSource == raised = Exc("FileNotFoundError", 110, "") /\ io = <<>>

C5_FactoryPerRecord ==
    pc = "ready" => token_calls >= Len(sites)

\* C6: detect_anomalies never raises.
C6_DetectNeverRaises ==
    op = "detect_anomalies" => raised = NoError

HomeUrlKeys == {"home_url", "url_home", "urlMain"}
\* C7: a detect_anomalies that ran to its end printed, for every site whose
\* home URL is "not a url", a line naming the site and the home URL field,
\* and none for a site whose home URL is a well-formed HTTP(S) URL.
C7_HomeUrlDiagnostic ==
    op = "detect_anomalies" /\ raised = NoError =>
        \A i \in 1..Len(sites) :
            LET named == \E k \in 1..Len(stdout) :
                            /\ stdout[k].msg = "anomaly"
                            /\ stdout[k].site = sites[i].name
                            /\ stdout[k].key \in HomeUrlKeys
            IN /\ sites[i].url_home = Str("not a url") => named
               /\ sites[i].url_home.t = "str"
                     /\ MatchUrl(Chars(sites[i].url_home.v))
                     => ~named

\* C8: site_name_list returns the names of the current sites, each once, in
\* case-insensitive lexicographic order.
C8_NameListSorted ==
    op = "site_name_list" =>
        /\ Len(returned) = Len(sites)
        /\ \A i \in 1..Len(sites) : InList(sites[i].name, returned)
        /\ \A i, j \in 1..Len(returned) :
              i < j => /\ returned[i] # returned[j]
                       /\ ~StrLess(Lower(Chars(returned[j])),
                                   Lower(Chars(returned[i])))

\* The list differs from the order of the dict and from the order of the
\* code points: "a" is listed before "B".
C8_Witness ==
    /\ op = "site_name_list"
    /\ returned # Names(sites)
    /\ \E i, j \in 1..Len(returned) :
          i < j /\ StrLess(Chars(returned[j]), Chars(returned[i]))
    /\ \E i \in 1..Len(sites) : HasKey(sites[i].information, "cluster")

LocalBranch ==
    /\ data_file_path # NonePath /\ data_file_path # ""
    /\ ~NotJson(data_file_path)
    /\ ~StartsWith(Lower(Chars(data_file_path)), S_http)

ClusterValues == {Num("0"), Num("1"), Num("2"), Num("3"), Num("4")}
\* C10: analyze_site_descriptions either raises nothing and leaves every
\* site with a cluster that is an integer in 0..4, or raises and leaves
\* self.sites as it was.
C10_AnalyzeAllOrNothing ==
    [][op' = "analyze_site_descriptions" =>
          \/ /\ raised' = NoError
             /\ Names(sites') = Names(sites)
             /\ \A i \in 1..Len(sites') :
                   sites'[i].information.cluster \in ClusterValues
          \/ /\ raised' # NoError
             /\ sites' = sites]_vars

\* A call that annotated every site, two of them with different clusters.
C10_Witness ==
    /\ op = "analyze_site_descriptions" /\ raised = NoError
    /\ Len(sites) >= NClusters
    /\ \A i \in 1..Len(sites) : sites[i].information.cluster \in ClusterValues
    /\ \E i, j \in 1..Len(sites) :
          sites[i].information.cluster # sites[j].information.cluster

=============================================================================
